---------------------------- MODULE Spec2Model ----------------------------
(***************************************************************************)
(* A model of spacex-dash-app.py: the launch-record table loaded at import *)
(* time, the two Dash callbacks get_pie_chart and get_scatter_chart that   *)
(* filter it, and the port selection of the __main__ block.                *)
(*                                                                         *)
(* A DataFrame is a sequence of rows; every row carries its index label,   *)
(* as pandas keeps it through boolean indexing.  The column                *)
(* 'Booster Version Category' is only handed through to plotly as the      *)
(* colour of a point and is left out of the rows.  Launch sites and class  *)
(* values are only ever compared for equality ('== entered_site', '== 1',  *)
(* '== 0'), so one class value other than 0 and 1 stands for all of them.  *)
(* Command-line arguments are strings over a small alphabet; int() is      *)
(* modelled on that alphabet (optional '-', then one or more digits).      *)
(* The set of ports that accept a connection is chosen at the start and    *)
(* does not change while the process selects its port.                     *)
(*                                                                         *)
(* SpecMain is the process from line 112 on, over one table and every      *)
(* argument and set of busy ports; Spec is the serving process over every  *)
(* table of up to MaxRows rows.                                            *)
(***************************************************************************)
EXTENDS Integers, Sequences, FiniteSets

VARIABLES
    spacex_df,   \* the module-level DataFrame (line 10)
    call,        \* the callback invocation last dispatched and its arguments
    fig,         \* the figure that invocation returned
    pc,          \* position of the process: main, alt_loop, run, serving, exited
    argv,        \* sys.argv[1:], each argument a sequence of characters
    listening,   \* the TCP ports of 127.0.0.1 that accept a connection
    port,        \* the local variable port of the __main__ block
    alt_i,       \* position of the for loop over the alternative ports
    probed,      \* the ports is_port_available was called with, in order
    printed,     \* the messages printed so far
    exit_status  \* the argument of sys.exit once pc = "exited"

vars == <<spacex_df, call, fig, pc, argv, listening, port, alt_i, probed,
          printed, exit_status>>

-----------------------------------------------------------------------------
(* Bounds *)

MaxRows == 2

MaxPayload == 1

MaxArgLen == 2

-----------------------------------------------------------------------------
(* The table *)

Sites == {"CCAFS LC-40", "KSC LC-39A"}

Payloads == 0..MaxPayload

ClassValues == {0, 1, 2}

CsvRows == [site : Sites, payload : Payloads, class : ClassValues]

CsvFiles == UNION {[1..n -> CsvRows] : n \in 0..MaxRows}

read_csv(rows) ==
    [i \in 1..Len(rows) |->
        [index |-> i - 1, site |-> rows[i].site,
         payload |-> rows[i].payload, class |-> rows[i].class]]

(* df['Launch Site'] *)
LaunchSiteColumn(df) == [i \in 1..Len(df) |-> df[i].site]

(* df.index, as a set of labels *)
IndexOf(df) == {df[i].index : i \in 1..Len(df)}

(* Series.unique(): the distinct values in order of first appearance *)
RECURSIVE unique(_)
unique(col) ==
    IF col = <<>> THEN <<>>
    ELSE LET init == unique(SubSeq(col, 1, Len(col) - 1))
             x    == col[Len(col)]
         IN  IF \E i \in 1..Len(init) : init[i] = x THEN init
             ELSE Append(init, x)

unique_sites == unique(LaunchSiteColumn(spacex_df))

site_options == <<"ALL">> \o unique_sites

(* The values a callback can be invoked with: the dropdown's options, a   *)
(* site of the data set that the table may lack, and a value that is no   *)
(* site at all.                                                            *)
SiteValues == {"ALL"} \cup Sites \cup {"VAFB SLC-4E"}

PayloadRanges == Payloads \X Payloads

-----------------------------------------------------------------------------
(* Boolean indexing *)

ClassIs_other(df, c) ==
    IF c = 0 THEN SelectSeq(df, LAMBDA r : r.class # 1)
    ELSE SelectSeq(df, LAMBDA r : r.class = c)

(* df[df['class'] == c] *)
ClassIs(df, c) == SelectSeq(df, LAMBDA r : r.class = c)

SiteIs_all(df, s) == df

(* df[df['Launch Site'] == s] *)
SiteIs(df, s) == SelectSeq(df, LAMBDA r : r.site = s)

PayloadBetween_strict(df, lo, hi) ==
    SelectSeq(df, LAMBDA r : r.payload >= lo /\ r.payload < hi)

PayloadBetween_lower(df, lo, hi) ==
    SelectSeq(df, LAMBDA r : r.payload >= lo)

PayloadBetween_sorted(df, lo, hi) ==
    SelectSeq(df, LAMBDA r : \/ r.payload >= lo /\ r.payload <= hi
                             \/ r.payload >= hi /\ r.payload <= lo)

(* df[(df['Payload Mass (kg)'] >= lo) & (df['Payload Mass (kg)'] <= hi)] *)
PayloadBetween(df, lo, hi) ==
    SelectSeq(df, LAMBDA r : r.payload >= lo /\ r.payload <= hi)

(* Series.sort_values(ascending=False), stable: insertion from the left *)
RECURSIVE sort_desc(_)
sort_desc(s) ==
    IF s = <<>> THEN <<>>
    ELSE LET init == sort_desc(SubSeq(s, 1, Len(s) - 1))
             e    == s[Len(s)]
             k    == Cardinality({i \in 1..Len(init) : init[i].count >= e.count})
         IN  SubSeq(init, 1, k) \o <<e>> \o SubSeq(init, k + 1, Len(init))

value_counts_zero(col) ==
    sort_desc([i \in 1..Len(unique_sites) |->
        [name |-> unique_sites[i],
         count |-> Cardinality({j \in 1..Len(col) : col[j] = unique_sites[i]})]])

(* Series.value_counts(): one entry per distinct value, with the number   *)
(* of its occurrences, the largest count first                             *)
value_counts(col) ==
    LET u == unique(col)
    IN  sort_desc([i \in 1..Len(u) |->
            [name |-> u[i],
             count |-> Cardinality({j \in 1..Len(col) : col[j] = u[i]})]])

-----------------------------------------------------------------------------
(* Figures *)

NoCall == [fn |-> "none", site |-> "ALL", range |-> <<0, 0>>]

NoFig == [kind |-> "none", names |-> <<>>, values |-> <<>>,
          counted |-> {}, points |-> <<>>]

(* lines 63-69: the pie of the successes of every site *)
PieAllSites ==
    LET success_df      == ClassIs(spacex_df, 1)
        success_by_site == value_counts(LaunchSiteColumn(success_df))
    IN  [kind    |-> "pie",
         names   |-> [i \in 1..Len(success_by_site) |-> success_by_site[i].name],
         values  |-> [i \in 1..Len(success_by_site) |-> success_by_site[i].count],
         counted |-> IndexOf(success_df),
         points  |-> <<>>]

(* lines 70-86: the Success/Failed pie of one site *)
PieOneSite(entered_site) ==
    LET filtered_df == SiteIs(spacex_df, entered_site)
        success_df  == ClassIs(filtered_df, 1)
        failed_df   == ClassIs(filtered_df, 0)
    IN  [kind    |-> "pie",
         names   |-> <<"Success", "Failed">>,
         values  |-> <<Len(success_df), Len(failed_df)>>,
         counted |-> IndexOf(success_df) \cup IndexOf(failed_df),
         points  |-> <<>>]

PieFigure(entered_site) ==
    IF entered_site = "ALL" THEN PieAllSites ELSE PieOneSite(entered_site)

(* lines 95-109: the scatter of the rows in the payload range *)
ScatterFigure(entered_site, payload_range) ==
    LET in_range    == PayloadBetween(spacex_df, payload_range[1], payload_range[2])
        filtered_df == IF entered_site # "ALL" THEN SiteIs(in_range, entered_site)
                       ELSE in_range
    IN  [kind    |-> "scatter",
         names   |-> <<>>,
         values  |-> <<>>,
         counted |-> {},
         points  |-> filtered_df]

-----------------------------------------------------------------------------
(* The callbacks *)

startup == <<pc, argv, listening, port, alt_i, probed, printed, exit_status>>

get_pie_chart ==
    /\ pc = "serving"
    /\ \E entered_site \in SiteValues :
         /\ call' = [fn |-> "get_pie_chart", site |-> entered_site,
                     range |-> <<0, 0>>]
         /\ fig' = PieFigure(entered_site)
    /\ UNCHANGED <<spacex_df, startup>>

get_scatter_chart_inplace ==
    /\ pc = "serving"
    /\ \E entered_site \in SiteValues, payload_range \in PayloadRanges :
         /\ call' = [fn |-> "get_scatter_chart", site |-> entered_site,
                     range |-> payload_range]
         /\ fig' = ScatterFigure(entered_site, payload_range)
         /\ spacex_df' = fig'.points
    /\ UNCHANGED startup

get_scatter_chart ==
    /\ pc = "serving"
    /\ \E entered_site \in SiteValues, payload_range \in PayloadRanges :
         /\ call' = [fn |-> "get_scatter_chart", site |-> entered_site,
                     range |-> payload_range]
         /\ fig' = ScatterFigure(entered_site, payload_range)
    /\ UNCHANGED <<spacex_df, startup>>

-----------------------------------------------------------------------------
(* Start-up: the __main__ block *)

DEFAULT_PORT == 8050

ALT_PORTS == <<8051, 8052, 8053, 8054, 8055>>

FallbackPorts == <<DEFAULT_PORT>> \o ALT_PORTS

ArgChars == {"8", "0", "-", "x"}

Digits == {"8", "0"}

ArgStrings == UNION {[1..n -> ArgChars] : n \in 0..MaxArgLen}

DigitValue(c) == IF c = "8" THEN 8 ELSE 0

(* the digits of an int() literal: what follows an optional sign *)
LiteralDigits(s) == IF s # <<>> /\ s[1] = "-" THEN Tail(s) ELSE s

(* whether int(s) returns rather than raising ValueError *)
IsIntLiteral(s) ==
    /\ LiteralDigits(s) # <<>>
    /\ \A i \in 1..Len(LiteralDigits(s)) : LiteralDigits(s)[i] \in Digits

RECURSIVE DigitsValue(_)
DigitsValue(d) ==
    IF d = <<>> THEN 0
    ELSE DigitsValue(SubSeq(d, 1, Len(d) - 1)) * 10 + DigitValue(d[Len(d)])

(* int(s), for s with IsIntLiteral(s) *)
int(s) ==
    IF s[1] = "-" THEN 0 - DigitsValue(LiteralDigits(s))
    ELSE DigitsValue(LiteralDigits(s))

(* socket.connect_ex: 0 when the connection is accepted, else an errno *)
connect_ex(p) == IF p \in listening THEN 0 ELSE 111

is_port_available_connected(p) == connect_ex(p) = 0

is_port_available(p) == connect_ex(p) # 0

MainArgParsed_default ==
    /\ pc = "main"
    /\ Len(argv) > 0
    /\ IsIntLiteral(argv[1])
    /\ port' = DEFAULT_PORT
    /\ printed' = Append(printed, "Using specified port")
    /\ pc' = "run"
    /\ UNCHANGED <<spacex_df, call, fig, argv, listening, alt_i, probed,
                   exit_status>>

(* lines 117-120: the argument parses *)
MainArgParsed ==
    /\ pc = "main"
    /\ Len(argv) > 0
    /\ IsIntLiteral(argv[1])
    /\ port' = int(argv[1])
    /\ printed' = Append(printed, "Using specified port")
    /\ pc' = "run"
    /\ UNCHANGED <<spacex_df, call, fig, argv, listening, alt_i, probed,
                   exit_status>>

MainArgInvalid_probe ==
    /\ pc = "main"
    /\ Len(argv) > 0
    /\ ~IsIntLiteral(argv[1])
    /\ printed' = Append(printed, "Invalid port number")
    /\ probed' = Append(probed, DEFAULT_PORT)
    /\ IF is_port_available(DEFAULT_PORT)
          THEN pc' = "run" /\ port' = DEFAULT_PORT
          ELSE pc' = "alt_loop" /\ port' = port
    /\ UNCHANGED <<spacex_df, call, fig, argv, listening, alt_i, exit_status>>

(* lines 117-123: int() raises ValueError *)
MainArgInvalid ==
    /\ pc = "main"
    /\ Len(argv) > 0
    /\ ~IsIntLiteral(argv[1])
    /\ printed' = Append(printed, "Invalid port number")
    /\ port' = DEFAULT_PORT
    /\ pc' = "run"
    /\ UNCHANGED <<spacex_df, call, fig, argv, listening, alt_i, probed,
                   exit_status>>

(* lines 124-132: no argument, port 8050 is free *)
MainDefaultFree ==
    /\ pc = "main"
    /\ Len(argv) = 0
    /\ is_port_available(DEFAULT_PORT)
    /\ probed' = Append(probed, DEFAULT_PORT)
    /\ pc' = "run"
    /\ UNCHANGED <<spacex_df, call, fig, argv, listening, port, alt_i,
                   printed, exit_status>>

(* lines 124-134: no argument, port 8050 is in use *)
MainDefaultBusy ==
    /\ pc = "main"
    /\ Len(argv) = 0
    /\ ~is_port_available(DEFAULT_PORT)
    /\ probed' = Append(probed, DEFAULT_PORT)
    /\ printed' = Append(printed, "Port 8050 is in use")
    /\ alt_i' = 1
    /\ pc' = "alt_loop"
    /\ UNCHANGED <<spacex_df, call, fig, argv, listening, port, exit_status>>

(* lines 134-138: an alternative port is free: take it and break *)
AltPortFree ==
    /\ pc = "alt_loop"
    /\ alt_i <= Len(ALT_PORTS)
    /\ is_port_available(ALT_PORTS[alt_i])
    /\ probed' = Append(probed, ALT_PORTS[alt_i])
    /\ port' = ALT_PORTS[alt_i]
    /\ printed' = Append(printed, "Using port instead")
    /\ pc' = "run"
    /\ UNCHANGED <<spacex_df, call, fig, argv, listening, alt_i, exit_status>>

(* lines 134-135: an alternative port is in use: next iteration *)
AltPortBusy ==
    /\ pc = "alt_loop"
    /\ alt_i <= Len(ALT_PORTS)
    /\ ~is_port_available(ALT_PORTS[alt_i])
    /\ probed' = Append(probed, ALT_PORTS[alt_i])
    /\ alt_i' = alt_i + 1
    /\ UNCHANGED <<spacex_df, call, fig, pc, argv, listening, port, printed,
                   exit_status>>

(* lines 139-142: the loop ran out: sys.exit(1) *)
NoPortExit ==
    /\ pc = "alt_loop"
    /\ alt_i > Len(ALT_PORTS)
    /\ printed' = printed \o <<"No available ports found", "Please specify a different port">>
    /\ exit_status' = 1
    /\ pc' = "exited"
    /\ UNCHANGED <<spacex_df, call, fig, argv, listening, port, alt_i, probed>>

(* line 144: app.run(debug=True, port=port) *)
AppRun ==
    /\ pc = "run"
    /\ pc' = "serving"
    /\ UNCHANGED <<spacex_df, call, fig, argv, listening, port, alt_i, probed,
                   printed, exit_status>>

(* The process as the interpreter reaches line 112, the table loaded *)
InitMain ==
    /\ spacex_df = read_csv(<<[site |-> "CCAFS LC-40", payload |-> 0, class |-> 1],
                              [site |-> "KSC LC-39A", payload |-> 1, class |-> 0]>>)
    /\ call = NoCall
    /\ fig = NoFig
    /\ pc = "main"
    /\ argv \in {<<>>} \cup {<<a>> : a \in ArgStrings}
    /\ listening \in SUBSET {FallbackPorts[i] : i \in 1..Len(FallbackPorts)}
    /\ port = DEFAULT_PORT
    /\ alt_i = 1
    /\ probed = <<>>
    /\ printed = <<>>
    /\ exit_status = 0

NextMain ==
    \/ MainArgParsed
    \/ MainArgInvalid
    \/ MainDefaultFree
    \/ MainDefaultBusy
    \/ AltPortFree
    \/ AltPortBusy
    \/ NoPortExit
    \/ AppRun
    \/ get_pie_chart
    \/ get_scatter_chart

SpecMain == InitMain /\ [][NextMain]_vars

-----------------------------------------------------------------------------
(* The server after start-up with no argument and nothing listening *)
InitServing ==
    /\ spacex_df \in {read_csv(rows) : rows \in CsvFiles}
    /\ call = NoCall
    /\ fig = NoFig
    /\ pc = "serving"
    /\ argv = <<>>
    /\ listening = {}
    /\ port = DEFAULT_PORT
    /\ alt_i = 1
    /\ probed = <<DEFAULT_PORT>>
    /\ printed = <<>>
    /\ exit_status = 0

NextServing == get_pie_chart \/ get_scatter_chart

Spec == InitServing /\ [][NextServing]_vars

-----------------------------------------------------------------------------
(* Properties of the callbacks, under Spec *)

RECURSIVE SumSeq(_)
SumSeq(q) == IF q = <<>> THEN 0 ELSE q[1] + SumSeq(Tail(q))

RowNumbers == 1..Len(spacex_df)

SuccessesAt(s) ==
    Cardinality({i \in RowNumbers : spacex_df[i].site = s /\ spacex_df[i].class = 1})

RowsAt(s) == {i \in RowNumbers : spacex_df[i].site = s}

SitesInTable == {spacex_df[i].site : i \in RowNumbers}

PieCalled == call.fn = "get_pie_chart"

ScatterCalled == call.fn = "get_scatter_chart"

Inverted == call.range[1] > call.range[2]

(* C1: the pie for 'ALL' has exactly one slice per site with at least one *)
(* class = 1 row, the slice's value is that site's number of class = 1    *)
(* rows, and the values sum to the number of class = 1 rows of the table. *)
C1_AllSitesPie ==
    (PieCalled /\ call.site = "ALL") =>
        /\ fig.kind = "pie"
        /\ Len(fig.names) = Len(fig.values)
        /\ \A i, j \in 1..Len(fig.names) : i # j => fig.names[i] # fig.names[j]
        /\ {fig.names[i] : i \in 1..Len(fig.names)} = {s \in Sites : SuccessesAt(s) > 0}
        /\ \A i \in 1..Len(fig.names) : fig.values[i] = SuccessesAt(fig.names[i])
        /\ SumSeq(fig.values) = Cardinality({i \in RowNumbers : spacex_df[i].class = 1})

(* the 'ALL' pie of a table in which one site has a success and another   *)
(* site has rows but no success                                            *)
C1_Witness ==
    /\ PieCalled /\ call.site = "ALL"
    /\ Len(fig.names) = 1
    /\ \E s \in SitesInTable : SuccessesAt(s) = 0

(* C2, as claimed: the two slices of a site's pie sum to the number of    *)
(* rows of that site, whatever their class values.                         *)
C2_SumIsSiteRowCount ==
    (PieCalled /\ call.site # "ALL") =>
        /\ Len(fig.values) = 2
        /\ fig.values[1] + fig.values[2] = Cardinality(RowsAt(call.site))

(* C2, amended: Success counts the site's class = 1 rows, Failed its      *)
(* class = 0 rows, so the slices sum to the number of the site's rows     *)
(* whose class is 0 or 1.                                                  *)
C2_SumIsBinaryRowCount ==
    (PieCalled /\ call.site # "ALL") =>
        /\ fig.kind = "pie"
        /\ fig.names = <<"Success", "Failed">>
        /\ fig.values[1] =
             Cardinality({i \in RowsAt(call.site) : spacex_df[i].class = 1})
        /\ fig.values[2] =
             Cardinality({i \in RowsAt(call.site) : spacex_df[i].class = 0})
        /\ fig.values[1] + fig.values[2] =
             Cardinality({i \in RowsAt(call.site) : spacex_df[i].class \in {0, 1}})

(* the pie of a site that has a row of class 0 or 1 and a row of another  *)
(* class                                                                   *)
C2_Witness ==
    /\ PieCalled /\ call.site # "ALL"
    /\ \E i \in RowsAt(call.site) : spacex_df[i].class \in {0, 1}
    /\ \E i \in RowsAt(call.site) : spacex_df[i].class \notin {0, 1}

(* C3: every point of the scatter has lo <= payload <= hi.                *)
C3_PointsInRange ==
    ScatterCalled =>
        \A k \in 1..Len(fig.points) :
            /\ call.range[1] <= fig.points[k].payload
            /\ fig.points[k].payload <= call.range[2]

(* a scatter that shows a point and leaves out a row above the range and  *)
(* a point on a bound of the range                                         *)
C3_Witness ==
    /\ ScatterCalled
    /\ \E k \in 1..Len(fig.points) : fig.points[k].payload = call.range[2]
    /\ \E i \in RowNumbers : spacex_df[i].payload > call.range[2]

(* C4: with a site other than 'ALL', every row counted in a pie slice and *)
(* every point of the scatter has exactly that launch site.                *)
C4_OnlySelectedSite ==
    call.site # "ALL" =>
        /\ PieCalled =>
             \A i \in RowNumbers :
                spacex_df[i].index \in fig.counted => spacex_df[i].site = call.site
        /\ ScatterCalled =>
             \A k \in 1..Len(fig.points) : fig.points[k].site = call.site

(* a scatter of one site, with a point, over a table that has a row of    *)
(* another site inside the payload range                                   *)
C4_Witness ==
    /\ ScatterCalled /\ call.site # "ALL"
    /\ fig.points # <<>>
    /\ \E i \in RowNumbers :
          /\ spacex_df[i].site # call.site
          /\ call.range[1] <= spacex_df[i].payload
          /\ spacex_df[i].payload <= call.range[2]

(* C8: no invocation of a callback changes the table.                     *)
C8_TableUnchanged == [][spacex_df' = spacex_df]_vars

(* a scatter was returned that holds fewer rows than the table            *)
C8_Witness ==
    /\ ScatterCalled
    /\ Len(fig.points) < Len(spacex_df)
    /\ fig.points # <<>>

(* C9, as claimed: a site that is neither 'ALL' nor in the table, or an   *)
(* inverted payload range, ends in an error instead of a chart.            *)
C9_FailsOnBadInput ==
    (\/ (PieCalled \/ ScatterCalled) /\ call.site \notin {"ALL"} \cup SitesInTable
     \/ ScatterCalled /\ Inverted)
        => fig.kind = "error"

(* C9, amended: such an input selects no row and the callback returns the *)
(* chart of that empty selection: a pie with Success = 0 and Failed = 0,  *)
(* a scatter without points.                                               *)
C9_EmptyChartOnBadInput ==
    /\ (PieCalled /\ call.site \notin {"ALL"} \cup SitesInTable) =>
          fig.kind = "pie" /\ fig.values = <<0, 0>>
    /\ (ScatterCalled /\ (call.site \notin {"ALL"} \cup SitesInTable \/ Inverted)) =>
          fig.kind = "scatter" /\ fig.points = <<>>

(* a scatter called for 'ALL' with an inverted range over a table that    *)
(* has a row between the two bounds                                        *)
C9_Witness ==
    /\ ScatterCalled /\ Inverted /\ call.site = "ALL"
    /\ \E i \in RowNumbers :
          /\ call.range[2] <= spacex_df[i].payload
          /\ spacex_df[i].payload <= call.range[1]

Qualifies(i) ==
    /\ call.range[1] <= spacex_df[i].payload
    /\ spacex_df[i].payload <= call.range[2]
    /\ call.site # "ALL" => spacex_df[i].site = call.site

(* C10: the points of the scatter are exactly the rows of the table in    *)
(* the payload range and, unless the site is 'ALL', of the selected site, *)
(* each once, whatever was invoked before.                                 *)
C10_ExactSelection ==
    ScatterCalled =>
        /\ fig.kind = "scatter"
        /\ {fig.points[k].index : k \in 1..Len(fig.points)} =
             {spacex_df[i].index : i \in {j \in RowNumbers : Qualifies(j)}}
        /\ Len(fig.points) = Cardinality({j \in RowNumbers : Qualifies(j)})
        /\ \A k \in 1..Len(fig.points) :
             \E i \in RowNumbers : Qualifies(i) /\ fig.points[k] = spacex_df[i]

(* a scatter of one site whose range ends at the payload of a shown row,  *)
(* over a table with a row that does not qualify                           *)
C10_Witness ==
    /\ ScatterCalled /\ call.site # "ALL"
    /\ \E i \in RowNumbers : Qualifies(i) /\ spacex_df[i].payload = call.range[2]
    /\ \E i \in RowNumbers : ~Qualifies(i)

-----------------------------------------------------------------------------
(* Properties of start-up, under SpecMain *)

ArgGiven == Len(argv) > 0

ArgParses == ArgGiven /\ IsIntLiteral(argv[1])

FallbackSet == {FallbackPorts[i] : i \in 1..Len(FallbackPorts)}

IsLowestFree(p) ==
    /\ p \in FallbackSet \ listening
    /\ \A q \in FallbackSet : q < p => q \in listening

PortChosen == pc \in {"run", "serving"}

Finished == pc \in {"serving", "exited"}

(* what probing 8050 and falling back through 8051-8055 comes to *)
ProbedOutcome ==
    /\ probed # <<>> /\ probed[1] = 8050
    /\ PortChosen => IsLowestFree(port)
    /\ pc = "exited" => exit_status = 1 /\ FallbackSet \subseteq listening
    /\ FallbackSet \subseteq listening => pc = "exited"

(* C5: with no argument the port handed to the server is the lowest free  *)
(* port of 8050..8055; with all six in use the process exits with status  *)
(* 1 and the server is never started.  Start-up never stops half-way.      *)
C5_LowestFreePort ==
    /\ ~ArgGiven =>
          /\ PortChosen => IsLowestFree(port)
          /\ FallbackSet \subseteq listening => ~PortChosen
          /\ pc = "exited" => exit_status = 1 /\ FallbackSet \subseteq listening
    /\ ~Finished => ENABLED NextMain

(* 8050 in use, 8051 free: the server runs on 8051 *)
C5_Witness ==
    /\ ~ArgGiven
    /\ 8050 \in listening /\ 8051 \notin listening
    /\ pc = "serving" /\ port = 8051

(* C6: an argument that is no integer does not end the process: a warning *)
(* is printed and the port is the default 8050.                            *)
C6_InvalidArgDefault ==
    (ArgGiven /\ ~ArgParses /\ pc # "main") =>
        /\ PortChosen
        /\ port = 8050
        /\ printed = <<"Invalid port number">>

(* the server runs on 8050 after an unparsable argument, 8050 in use      *)
C6_Witness ==
    /\ ArgGiven /\ ~ArgParses
    /\ 8050 \in listening
    /\ pc = "serving" /\ port = 8050

(* C7, as claimed: the argument decides only when given and parseable; in *)
(* every other case 8050 is probed, then 8051-8055, and the process exits *)
(* with a non-zero status if none is free.                                 *)
C7_ProbeUnlessParsed ==
    Finished =>
        IF ArgParses THEN pc = "serving" /\ port = int(argv[1]) /\ probed = <<>>
        ELSE ProbedOutcome

(* C7, amended: probing happens only when no argument is given; an        *)
(* argument that does not parse selects 8050 without any probe and never  *)
(* exits.                                                                  *)
C7_ProbeOnlyWithoutArg ==
    Finished =>
        /\ ArgParses => pc = "serving" /\ port = int(argv[1]) /\ probed = <<>>
        /\ (ArgGiven /\ ~ArgParses) =>
              pc = "serving" /\ port = 8050 /\ probed = <<>>
        /\ ~ArgGiven => ProbedOutcome

(* the server runs on the port a parseable argument names, other than the *)
(* default, although 8050 is free                                          *)
C7_Witness ==
    /\ ArgParses
    /\ pc = "serving" /\ port = int(argv[1]) /\ port # 8050
    /\ 8050 \notin listening

=============================================================================
